---- MODULE Spec2Model ----
(***************************************************************************)
(* Model of the model-backed operations of auto-hunter-ai:                 *)
(*   CarSearchService (services/car_search_system.py): the structured call *)
(*   client with its retry loop, parse_query, rank_and_annotate,           *)
(*   summarize_results, chat_about_results;                                *)
(*   call_gemini (utils/ai.py) and OfferAnalysisService.analyze            *)
(*   (services/offer_analysis_service.py).                                 *)
(*                                                                         *)
(* One invocation of one operation is a run of the state machine: Start*   *)
(* evaluates the early returns, Post issues one HTTP request, and the      *)
(* receive actions process the endpoint's answer up to the return of the   *)
(* operation.  Listings are Python dicts shared by reference: a listing is *)
(* named by its position in the caller's list and `heap` holds the         *)
(* ai_description of each one.                                             *)
(***************************************************************************)
EXTENDS Integers, Sequences, FiniteSets, TLC

\* ---- bounds of the model ------------------------------------------------
MaxSmall == 3      \* short input lists have 0..MaxSmall listings
MaxResp == 3       \* entries in a model's ranked_cars answer
MaxSearches == 3   \* Search clicks in one browser session
MaxText == 5       \* tokens in a free-text model answer

\* ---- constants of the program -------------------------------------------
BatchCap == 15     \* results[:15]
OfferCap == 8      \* recent_results[:8]
max_tries == 5     \* backoff.on_exception(..., max_tries=5)

Min(a, b) == IF a < b THEN a ELSE b

\* ---- Python values ------------------------------------------------------
\* A dict is a function whose domain is its set of keys.
EmptyDict == [k \in {} |-> k]

\* dict.get(k, default)
Get(d, k, default) == IF k \in DOMAIN d THEN d[k] ELSE default

\* JSON scalars that may stand where an integer is expected
None == [t |-> "none", v |-> 0]
IntV(i) == [t |-> "int", v |-> i]
StrV == [t |-> "str", v |-> 0]

\* a listing dict without the key 'ai_description'
Absent == "<absent>"
DefaultDescription == "Matches your search criteria."
LeftoverDescription == "Also found matching your criteria."

\* ---- text ---------------------------------------------------------------
\* A text is a sequence of tokens: an opening brace, a closing brace, a
\* word of prose, the literal null, or a list of "key": value members.
LB == [t |-> "{", m |-> EmptyDict]
RB == [t |-> "}", m |-> EmptyDict]
W == [t |-> "w", m |-> EmptyDict]
NullTok == [t |-> "null", m |-> EmptyDict]
ErrTok == [t |-> "Gemini API error", m |-> EmptyDict]
Chunk(d) == [t |-> "members", m |-> d]

\* json.loads accepts: null, {} and { members }; everything else (empty
\* text, prose, unbalanced or nested braces, members without a separating
\* comma) raises JSONDecodeError.
JsonValid(s) ==
    \/ Len(s) = 1 /\ s[1].t = "null"
    \/ Len(s) = 2 /\ s[1].t = "{" /\ s[2].t = "}"
    \/ Len(s) = 3 /\ s[1].t = "{" /\ s[2].t = "members" /\ s[3].t = "}"

JsonIsObject(s) == JsonValid(s) /\ s[1].t = "{"

JsonObject(s) == IF Len(s) = 3 THEN s[2].m ELSE EmptyDict

\* ---- HTTP responses -----------------------------------------------------
\* status 0 stands for requests.post raising a RequestException; text is
\* resp.text and body is what resp.json() decodes (NonJson: it raises).
NonJson == [raw |-> "not json"]
IsJsonBody(b) == "raw" \notin DOMAIN b

FullPayload(text) ==
    [candidates |-> <<[content |-> [parts |-> <<[text |-> text]>>]]>>]
NoCandidates == [promptFeedback |-> "blocked"]
EmptyCandidates == [candidates |-> <<>>]
NoContent == [candidates |-> <<[finishReason |-> "SAFETY"]>>]
NoParts == [candidates |-> <<[content |-> [role |-> "model"]]>>]
EmptyParts == [candidates |-> <<[content |-> [parts |-> <<>>]]>>]
NoText == [candidates |-> <<[content |-> [parts |-> <<[inlineData |-> "x"]>>]]>>]

MissingKeyPayloads == {NoCandidates, NoContent, NoParts, NoText}
EmptyListPayloads == {EmptyCandidates, EmptyParts}

Response(s, t, b) == [status |-> s, text |-> t, body |-> b]

ErrorObject == [error |-> "INVALID_ARGUMENT"]

\* answers that do not depend on the operation: a failed request, error
\* statuses (with a prose or a JSON error body), a status that is neither
\* 200 nor an error, 200 with a body that is not JSON or not navigable
CommonResponses ==
    {Response(0, <<>>, NonJson),
     Response(500, <<W>>, NonJson),
     Response(400, <<LB, Chunk(ErrorObject), RB>>, ErrorObject),
     Response(201, <<>>, FullPayload(<<LB, RB>>)),
     Response(204, <<>>, NonJson),
     Response(200, <<W>>, NonJson)}
    \cup {Response(200, <<>>, p) : p \in MissingKeyPayloads \cup EmptyListPayloads}

\* 200 answers navigable to one of the given texts
Ok(texts) == {Response(200, <<>>, FullPayload(t)) : t \in texts}

\* requests.Response.raise_for_status raises HTTPError for 4xx and 5xx only
RaiseForStatus(status) == 400 <= status /\ status < 600

\* ---- configuration ------------------------------------------------------
EnvNames == {"GOOGLE_API_KEY", "GEMINI_API_KEY"}

\* variant: os.getenv is given a placeholder default, so the key is never falsy
ServiceApiKey_placeholder(e) == TRUE

\* CarSearchService.__init__: self.api_key (truthiness)
ServiceApiKey(e) == "GEMINI_API_KEY" \in e \/ "GOOGLE_API_KEY" \in e

\* utils/ai.py: API_KEY (truthiness)
UtilsApiKey(e) == "GOOGLE_API_KEY" \in e

\* ---- the structured call client ----------------------------------------
\* a decoded JSON value: an object, or None for the literal null
PyDict(d) == [isObj |-> TRUE, v |-> d]
PyNone == [isObj |-> FALSE, v |-> EmptyDict]
json_loads(s) == IF JsonIsObject(s) THEN PyDict(JsonObject(s)) ELSE PyNone

Raise(e) == [exc |-> e, val |-> PyNone]
Return(s) == [exc |-> "", val |-> json_loads(s)]

\* variant: subscripts the payload (d['candidates']) instead of d.get
Navigate_subscript(body, defaultText) ==
    IF "candidates" \notin DOMAIN body THEN [exc |-> "KeyError", text |-> <<>>]
    ELSE IF Len(body.candidates) = 0 THEN [exc |-> "IndexError", text |-> <<>>]
    ELSE IF "content" \notin DOMAIN body.candidates[1]
    THEN [exc |-> "KeyError", text |-> <<>>]
    ELSE IF "parts" \notin DOMAIN body.candidates[1].content
    THEN [exc |-> "KeyError", text |-> <<>>]
    ELSE IF Len(body.candidates[1].content.parts) = 0
    THEN [exc |-> "IndexError", text |-> <<>>]
    ELSE IF "text" \notin DOMAIN body.candidates[1].content.parts[1]
    THEN [exc |-> "KeyError", text |-> <<>>]
    ELSE [exc |-> "", text |-> body.candidates[1].content.parts[1].text]

\* the text the payload is navigated to, IndexError on an empty list
Navigate(body, defaultText) ==
    LET cands == Get(body, "candidates", <<EmptyDict>>) IN
    IF Len(cands) = 0 THEN [exc |-> "IndexError", text |-> <<>>]
    ELSE LET parts == Get(Get(cands[1], "content", EmptyDict), "parts", <<EmptyDict>>) IN
         IF Len(parts) = 0 THEN [exc |-> "IndexError", text |-> <<>>]
         ELSE [exc |-> "", text |-> Get(parts[1], "text", defaultText)]

\* one run of attempt_call on the endpoint's answer r
attempt_call(r) ==
    IF r.status = 0 THEN Raise("ConnectionError")
    ELSE IF r.status # 200 /\ RaiseForStatus(r.status) THEN Raise("HTTPError")
    ELSE IF ~IsJsonBody(r.body) THEN Raise("JSONDecodeError")
    ELSE LET nav == Navigate(r.body, <<LB, RB>>) IN
         IF nav.exc # "" THEN Raise(nav.exc)
         ELSE IF ~JsonValid(nav.text) THEN Raise("JSONDecodeError")
         ELSE Return(nav.text)

\* variant: backoff is told to retry on Exception
Retryable_any(e) == e # ""

\* the exception classes backoff.on_exception retries on
Retryable(e) == e \in {"ConnectionError", "HTTPError", "JSONDecodeError"}

\* backoff: call again after a failed try number `tries`
ShouldRetry(e, tries) == Retryable(e) /\ tries < max_tries

\* ---- rank_and_annotate: reconciliation ---------------------------------
\* the first loop: walks the model's entries; stops at the first entry
\* whose original_id cannot be compared with an integer (TypeError)
RECURSIVE RankLoop(_, _, _, _, _)
RankLoop(items, k, cars, acc, h) ==
    IF k > Len(items) THEN [exc |-> "", list |-> acc, heap |-> h]
    ELSE LET original_index == Get(items[k], "original_id", None) IN
         IF original_index.t = "none"
         THEN RankLoop(items, k + 1, cars, acc, h)
         ELSE IF original_index.t # "int"
         THEN [exc |-> "TypeError", list |-> acc, heap |-> h]
         ELSE IF 0 <= original_index.v /\ original_index.v < Len(cars)
         THEN LET car == cars[original_index.v + 1] IN
              RankLoop(items, k + 1, cars, Append(acc, car),
                       [h EXCEPT ![car] = Get(items[k], "ai_description", DefaultDescription)])
         ELSE RankLoop(items, k + 1, cars, acc, h)

\* variant: takes the rank of an entry for the index it cites
used_ids_by_rank(items) == {IntV(k - 1) : k \in 1..Len(items)}

used_ids(items) == {Get(items[k], "original_id", None) : k \in 1..Len(items)}

\* the second loop: listings whose index is not in used_ids, in order
RECURSIVE Leftover(_, _, _, _, _)
Leftover(i, cars, used, acc, h) ==
    IF i >= Len(cars) THEN [exc |-> "", list |-> acc, heap |-> h]
    ELSE IF IntV(i) \notin used
    THEN Leftover(i + 1, cars, used, Append(acc, cars[i + 1]),
                  [h EXCEPT ![cars[i + 1]] = LeftoverDescription])
    ELSE Leftover(i + 1, cars, used, acc, h)

\* the body of the try block after the structured call returned
Reconcile(processed_data, cars, h) ==
    IF ~processed_data.isObj THEN [exc |-> "AttributeError", list |-> <<>>, heap |-> h]
    ELSE LET items == Get(processed_data.v, "ranked_cars", <<>>)
             first == RankLoop(items, 1, cars, <<>>, h)
         IN IF first.exc # "" THEN first
            ELSE IF Len(first.list) < Len(cars)
            THEN Leftover(0, cars, used_ids(items), first.list, first.heap)
            ELSE first

\* ---- inputs -------------------------------------------------------------
\* lengths of the caller's list: short lists, and lists at and over the cap
ListingCounts(cap) == (0..MaxSmall) \cup {cap, cap + 1}

\* what the model may put in original_id / ai_description
IdChoices == {IntV(i) : i \in {-1, 0, 1, 2, BatchCap}} \cup {StrV}
Item(o, d) ==
    [k \in (IF o = None THEN {} ELSE {"original_id"})
           \cup (IF d = Absent THEN {} ELSE {"ai_description"})
        |-> IF k = "original_id" THEN o ELSE d]
\* the description of an entry is read only when its index is an integer in
\* range: the entries citing 0 and 2 carry one, the entry citing 1 has none
Items == {Item(o, Absent) : o \in (IdChoices \cup {None}) \ {IntV(0), IntV(2)}}
         \cup {Item(IntV(i), "A") : i \in {0, 2}}
ItemSeqs == UNION {[1..k -> Items] : k \in 0..MaxResp}

BadTexts == {<<LB, RB>>, <<NullTok>>, <<W>>}
RankTexts == {<<LB, Chunk([ranked_cars |-> s]), RB>> : s \in ItemSeqs} \cup BadTexts

FilterObjects ==
    {[brand |-> "BMW", min_year |-> IntV(2018)],
     [brand |-> "<null>", min_year |-> None]}
ParseTexts == {<<LB, Chunk(f), RB>> : f \in FilterObjects} \cup BadTexts

\* prose answers of the model to summarize_results / chat_about_results
ProseTexts == {<<>>, <<W>>, <<W, W>>}

\* answers of the model to the offer prompt: any text of up to MaxText tokens
FullAssessment ==
    [price_position |-> "fair", suggested_discount_eur |-> 500,
     justification |-> "mileage is average", scam_risk_score |-> 20,
     scam_reasons |-> <<"no photos">>, buyer_message |-> "Boa tarde"]
PartialAssessment ==
    [price_position |-> "high", suggested_discount_eur |-> -5,
     scam_risk_score |-> 150]
OfferTokens == {LB, RB, W, Chunk(FullAssessment), Chunk(PartialAssessment)}
OfferTexts == UNION {[1..k -> OfferTokens] : k \in 0..MaxText}

\* ---- fixed return values -------------------------------------------------
\* (buyer_message is written here without the dash and the tilde of the
\* source's literal, which the string syntax does not admit)
Say(s) == <<[t |-> s, m |-> EmptyDict]>>

\* variant: the fallback reports no scam risk and omits its reason
FallbackAssessment_no_risk ==
    [price_position |-> "Unable to determine.", suggested_discount_eur |-> 0,
     justification |-> "AI returned invalid format.", scam_risk_score |-> 0,
     scam_reasons |-> <<>>,
     buyer_message |-> "Desculpa - nao consegui analisar a oferta."]

FallbackAssessment ==
    [price_position |-> "Unable to determine.", suggested_discount_eur |-> 0,
     justification |-> "AI returned invalid format.", scam_risk_score |-> 50,
     scam_reasons |-> <<"Could not parse AI output.">>,
     buyer_message |-> "Desculpa - nao consegui analisar a oferta."]

\* ---- summarize_results ---------------------------------------------------
\* what summarize_results makes of the endpoint's answer r
summarize_results(r) ==
    IF r.status = 0 THEN Say("Error summarizing:") \o <<W>>
    ELSE IF r.status # 200 THEN Say("Error generating summary.")
    ELSE IF ~IsJsonBody(r.body) THEN Say("Error summarizing:") \o <<W>>
    ELSE LET nav == Navigate(r.body, Say("Analysis unavailable.")) IN
         IF nav.exc # "" THEN Say("Error summarizing:") \o <<W>>
         ELSE nav.text

\* ---- chat_about_results --------------------------------------------------
\* what chat_about_results makes of the endpoint's answer r
chat_about_results(r) ==
    IF r.status = 0 THEN Say("Error:") \o <<W>>
    ELSE IF ~IsJsonBody(r.body) THEN Say("Error:") \o <<W>>
    ELSE LET nav == Navigate(r.body, Say("Error generating response.")) IN
         IF nav.exc # "" THEN Say("Error:") \o <<W>>
         ELSE nav.text

\* ---- utils/ai.py: call_gemini --------------------------------------------
MissingKeyText == <<ErrTok>> \o Say("missing API key.")

\* the string call_gemini returns for the endpoint's answer r
call_gemini(r) ==
    IF r.status = 0 THEN <<ErrTok, W>>
    ELSE IF r.status # 200 THEN <<ErrTok>> \o r.text
    ELSE IF ~IsJsonBody(r.body) THEN <<ErrTok, W>>
    ELSE LET nav == Navigate(r.body, <<>>) IN
         IF nav.exc # "" THEN <<ErrTok, W>>
         ELSE IF nav.text = <<>> THEN Say("Gemini returned an empty response.")
         ELSE nav.text

\* ---- OfferAnalysisService.analyze ----------------------------------------
Positions(s, kind) == {i \in 1..Len(s) : s[i].t = kind}
SetMin(S) == CHOOSE x \in S : \A y \in S : x <= y
SetMax(S) == CHOOSE x \in S : \A y \in S : y <= x

\* str.index / str.rindex: position of the first / last token of a kind
\* (0-based as slices count; callers test Positions for the ValueError)
index(s, kind) == SetMin(Positions(s, kind)) - 1
rindex(s, kind) == SetMax(Positions(s, kind)) - 1

\* variant: s[start:end - 1], the slice stops before the closing brace
Slice_exclusive(s, start, end) == SubSeq(s, start + 1, end - 1)

\* s[start:end]
Slice(s, start, end) == SubSeq(s, start + 1, end)

\* variant: cuts the text at the first closing brace (index, not rindex)
analyze_first_brace(text) ==
    IF Positions(text, "{") = {} \/ Positions(text, "}") = {}
    THEN [ret |-> FallbackAssessment, raised |-> ""]
    ELSE LET start == index(text, "{")
             end == index(text, "}") + 1
             json_text == Slice(text, start, end)
         IN IF JsonValid(json_text)
            THEN [ret |-> JsonObject(json_text), raised |-> ""]
            ELSE [ret |-> FallbackAssessment, raised |-> ""]

\* the try block of analyze applied to the string call_gemini returned
analyze(text) ==
    IF Positions(text, "{") = {} \/ Positions(text, "}") = {}
    THEN [ret |-> FallbackAssessment, raised |-> ""]
    ELSE LET start == index(text, "{")
             end == rindex(text, "}") + 1
             json_text == Slice(text, start, end)
         IN IF JsonValid(json_text)
            THEN [ret |-> JsonObject(json_text), raised |-> ""]
            ELSE [ret |-> FallbackAssessment, raised |-> ""]

\* ---- state --------------------------------------------------------------
VARIABLES
    env,              \* names of the environment variables that hold a key
    pc,               \* "idle", "call" (about to post), "wait" (request in flight), "done"
    op,               \* the operation invoked
    results,          \* the caller's list: listing identities, in order
    heap,             \* ai_description of each listing (shared with the caller)
    heap0,            \* heap when the operation was invoked
    cars_to_process,  \* results[:15]
    sent,             \* listings written into the prompt
    attempts,         \* requests posted by this invocation
    inflight,         \* requests posted and not yet answered
    resp,             \* the endpoint's answer to the last request
    transportOnly,    \* every answer so far was a request exception or a non-200 status
    exc,              \* exception _call_gemini_structured ended with ("" if none)
    decoded,          \* value _call_gemini_structured returned
    handled,          \* exception caught by the operation's except clause ("" if none)
    llm_response,     \* the string call_gemini returned to analyze
    ret,              \* value returned by the operation
    raised,           \* exception that left the operation ("" if none)
    car_service,      \* st.session_state.car_service ("none" until created)
    current_results,  \* st.session_state.current_results
    search_summary,   \* st.session_state.search_summary (<<>> is the empty string)
    summary_input,    \* the list handed to the summarize_results call that wrote search_summary
    history           \* how each Search click so far ended

vars == <<env, pc, op, results, heap, heap0, cars_to_process, sent, attempts,
          inflight, resp, transportOnly, exc, decoded, handled, llm_response,
          ret, raised, car_service, current_results, search_summary,
          summary_input, history>>

\* the session state of the page
appVars == <<car_service, current_results, search_summary, summary_input, history>>
\* the state of one invocation of a service operation
callVars == <<pc, op, results, heap, heap0, cars_to_process, sent, attempts,
              inflight, resp, transportOnly, exc, decoded, handled, llm_response,
              ret, raised>>

NoResponse == Response(-1, <<>>, NonJson)

Init ==
    /\ env \in SUBSET EnvNames
    /\ pc = "idle"
    /\ op = "none"
    /\ results = <<>>
    /\ heap = <<>>
    /\ heap0 = <<>>
    /\ cars_to_process = <<>>
    /\ sent = <<>>
    /\ attempts = 0
    /\ inflight = 0
    /\ resp = NoResponse
    /\ transportOnly = TRUE
    /\ exc = ""
    /\ decoded = PyNone
    /\ handled = ""
    /\ llm_response = <<>>
    /\ ret = <<>>
    /\ raised = ""
    /\ car_service = "none"
    /\ current_results = <<>>
    /\ search_summary = <<>>
    /\ summary_input = <<>>
    /\ history = <<>>

\* the caller's list of n listings, as retrieved: none carries an ai_description
Listings(n) == [i \in 1..n |-> i - 1]
NewHeap(n) == [i \in 0..(n - 1) |-> Absent]
\* variant: the slice is dropped and the whole list is taken
Prefix_uncapped(s, c) == s

\* s[:c]
Prefix(s, c) == SubSeq(s, 1, Min(Len(s), c))

TransportFailure(r) == r.status # 200

\* ---- requests.post ------------------------------------------------------
Post ==
    /\ pc = "call"
    /\ pc' = "wait"
    /\ attempts' = attempts + 1
    /\ inflight' = inflight + 1
    /\ UNCHANGED <<env, op, results, heap, heap0, cars_to_process, sent, resp,
                   transportOnly, exc, decoded, handled, llm_response, ret, raised>>
    /\ UNCHANGED appVars

\* ---- _call_gemini_structured: a failed try that backoff repeats ---------
StructuredResponses ==
    IF op = "rank" THEN Ok(RankTexts) \cup CommonResponses
    ELSE Ok(ParseTexts) \cup CommonResponses

StructuredRetry ==
    /\ pc = "wait"
    /\ op \in {"rank", "parse", "structured"}
    /\ \E r \in StructuredResponses :
        /\ ShouldRetry(attempt_call(r).exc, attempts)
        /\ resp' = r
        /\ transportOnly' = (transportOnly /\ TransportFailure(r))
    /\ pc' = "call"
    /\ inflight' = inflight - 1
    /\ UNCHANGED <<env, op, results, heap, heap0, cars_to_process, sent, attempts,
                   exc, decoded, handled, llm_response, ret, raised>>
    /\ UNCHANGED appVars

\* ---- _call_gemini_structured called on its own --------------------------
StartStructured ==
    /\ pc = "idle"
    /\ op' = "structured"
    /\ IF ~ServiceApiKey(env)
       THEN pc' = "done" /\ exc' = "EnvironmentError" /\ raised' = "EnvironmentError"
       ELSE pc' = "call" /\ UNCHANGED <<exc, raised>>
    /\ UNCHANGED <<env, results, heap, heap0, cars_to_process, sent, attempts,
                   inflight, resp, transportOnly, decoded, handled, llm_response, ret>>
    /\ UNCHANGED appVars

StructuredReturn ==
    /\ pc = "wait"
    /\ op = "structured"
    /\ \E r \in StructuredResponses :
        LET call == attempt_call(r)
        IN /\ ~ShouldRetry(call.exc, attempts)
           /\ resp' = r
           /\ transportOnly' = (transportOnly /\ TransportFailure(r))
           /\ exc' = call.exc
           /\ decoded' = call.val
           /\ raised' = call.exc
           /\ ret' = call.val
    /\ pc' = "done"
    /\ inflight' = inflight - 1
    /\ UNCHANGED <<env, op, results, heap, heap0, cars_to_process, sent, attempts,
                   handled, llm_response>>
    /\ UNCHANGED appVars

\* ---- parse_query --------------------------------------------------------
\* variant: no try/except around the structured call
parse_query_unguarded(call) ==
    IF call.exc # "" THEN [ret |-> PyNone, raised |-> call.exc]
    ELSE [ret |-> call.val, raised |-> ""]

\* what parse_query makes of the outcome of the structured call
parse_query(call) ==
    IF call.exc # "" THEN [ret |-> PyDict(EmptyDict), raised |-> ""]
    ELSE [ret |-> call.val, raised |-> ""]

StartParse ==
    /\ pc = "idle"
    /\ op' = "parse"
    /\ IF ~ServiceApiKey(env)
       THEN pc' = "done" /\ ret' = PyDict(EmptyDict)
       ELSE pc' = "call" /\ ret' = ret
    /\ UNCHANGED <<env, results, heap, heap0, cars_to_process, sent, attempts,
                   inflight, resp, transportOnly, exc, decoded, handled, llm_response, raised>>
    /\ UNCHANGED appVars

ParseReturn ==
    /\ pc = "wait"
    /\ op = "parse"
    /\ \E r \in StructuredResponses :
        LET call == attempt_call(r)
            out == parse_query(call)
        IN /\ ~ShouldRetry(call.exc, attempts)
           /\ resp' = r
           /\ transportOnly' = (transportOnly /\ TransportFailure(r))
           /\ exc' = call.exc
           /\ decoded' = call.val
           /\ handled' = call.exc
           /\ ret' = out.ret
           /\ raised' = out.raised
    /\ pc' = "done"
    /\ inflight' = inflight - 1
    /\ UNCHANGED <<env, op, results, heap, heap0, cars_to_process, sent, attempts,
                   llm_response>>
    /\ UNCHANGED appVars

\* ---- rank_and_annotate --------------------------------------------------
\* what rank_and_annotate makes of the outcome of the structured call
rank_and_annotate(call, res, cars, h) ==
    IF call.exc # "" THEN [ret |-> res, heap |-> h, exc |-> call.exc]
    ELSE LET rec == Reconcile(call.val, cars, h) IN
         IF rec.exc # "" THEN [ret |-> res, heap |-> rec.heap, exc |-> rec.exc]
         ELSE [ret |-> rec.list, heap |-> rec.heap, exc |-> ""]

StartRank ==
    /\ pc = "idle"
    /\ op' = "rank"
    /\ \E n \in ListingCounts(BatchCap) :
        /\ results' = Listings(n)
        /\ heap' = NewHeap(n)
        /\ heap0' = NewHeap(n)
        /\ IF ~ServiceApiKey(env) \/ n = 0
           THEN /\ pc' = "done"
                /\ ret' = Listings(n)
                /\ UNCHANGED <<cars_to_process, sent>>
           ELSE /\ pc' = "call"
                /\ cars_to_process' = Prefix(Listings(n), BatchCap)
                /\ sent' = Prefix(Listings(n), BatchCap)
                /\ ret' = ret
    /\ UNCHANGED <<env, attempts, inflight, resp, transportOnly, exc, decoded, handled,
                   llm_response, raised>>
    /\ UNCHANGED appVars

RankReturn ==
    /\ pc = "wait"
    /\ op = "rank"
    /\ \E r \in StructuredResponses :
        LET call == attempt_call(r)
            out == rank_and_annotate(call, results, cars_to_process, heap)
        IN /\ ~ShouldRetry(call.exc, attempts)
           /\ resp' = r
           /\ transportOnly' = (transportOnly /\ TransportFailure(r))
           /\ exc' = call.exc
           /\ decoded' = call.val
           /\ handled' = out.exc
           /\ ret' = out.ret
           /\ heap' = out.heap
    /\ pc' = "done"
    /\ inflight' = inflight - 1
    /\ UNCHANGED <<env, op, results, heap0, cars_to_process, sent, attempts,
                   llm_response, raised>>
    /\ UNCHANGED appVars

\* ---- summarize_results / chat_about_results: the operations --------------
StartSummarize ==
    /\ pc = "idle"
    /\ op' = "summarize"
    /\ \E n \in ListingCounts(BatchCap) :
        /\ results' = Listings(n)
        /\ heap' = NewHeap(n)
        /\ heap0' = NewHeap(n)
        /\ IF ~ServiceApiKey(env) \/ n = 0
           THEN /\ pc' = "done"
                /\ ret' = Say("Unable to generate summary.")
                /\ sent' = sent
           ELSE /\ pc' = "call"
                /\ sent' = Prefix(Listings(n), BatchCap)
                /\ ret' = ret
    /\ UNCHANGED <<env, cars_to_process, attempts, inflight, resp, transportOnly,
                   exc, decoded, handled, llm_response, raised>>
    /\ UNCHANGED appVars

SummarizeReturn ==
    /\ pc = "wait"
    /\ op = "summarize"
    /\ \E r \in Ok(ProseTexts) \cup CommonResponses :
        /\ resp' = r
        /\ transportOnly' = (transportOnly /\ TransportFailure(r))
        /\ ret' = summarize_results(r)
    /\ pc' = "done"
    /\ inflight' = inflight - 1
    /\ UNCHANGED <<env, op, results, heap, heap0, cars_to_process, sent, attempts,
                   exc, decoded, handled, llm_response, raised>>
    /\ UNCHANGED appVars

StartChat ==
    /\ pc = "idle"
    /\ op' = "chat"
    /\ \E n \in ListingCounts(BatchCap) :
        /\ results' = Listings(n)
        /\ heap' = NewHeap(n)
        /\ heap0' = NewHeap(n)
        /\ IF ~ServiceApiKey(env)
           THEN /\ pc' = "done"
                /\ ret' = Say("API key missing.")
                /\ sent' = sent
           ELSE /\ pc' = "call"
                /\ sent' = Prefix(Listings(n), BatchCap)
                /\ ret' = ret
    /\ UNCHANGED <<env, cars_to_process, attempts, inflight, resp, transportOnly,
                   exc, decoded, handled, llm_response, raised>>
    /\ UNCHANGED appVars

ChatReturn ==
    /\ pc = "wait"
    /\ op = "chat"
    /\ \E r \in Ok(ProseTexts) \cup CommonResponses :
        /\ resp' = r
        /\ transportOnly' = (transportOnly /\ TransportFailure(r))
        /\ ret' = chat_about_results(r)
    /\ pc' = "done"
    /\ inflight' = inflight - 1
    /\ UNCHANGED <<env, op, results, heap, heap0, cars_to_process, sent, attempts,
                   exc, decoded, handled, llm_response, raised>>
    /\ UNCHANGED appVars

\* ---- OfferAnalysisService.analyze: the operation --------------------------
StartEvaluate ==
    /\ pc = "idle"
    /\ op' = "evaluate"
    /\ \E n \in ListingCounts(OfferCap) :
        /\ results' = Listings(n)
        /\ heap' = NewHeap(n)
        /\ heap0' = NewHeap(n)
        /\ sent' = Prefix(Listings(n), OfferCap)
    /\ IF ~UtilsApiKey(env)
       THEN /\ pc' = "done"
            /\ llm_response' = MissingKeyText
            /\ ret' = analyze(MissingKeyText).ret
            /\ raised' = analyze(MissingKeyText).raised
       ELSE /\ pc' = "call"
            /\ UNCHANGED <<llm_response, ret, raised>>
    /\ UNCHANGED <<env, cars_to_process, attempts, inflight, resp, transportOnly,
                   exc, decoded, handled>>
    /\ UNCHANGED appVars

EvaluateReturn ==
    /\ pc = "wait"
    /\ op = "evaluate"
    /\ \E r \in Ok(OfferTexts) \cup CommonResponses :
        /\ resp' = r
        /\ transportOnly' = (transportOnly /\ TransportFailure(r))
        /\ llm_response' = call_gemini(r)
        /\ ret' = analyze(call_gemini(r)).ret
        /\ raised' = analyze(call_gemini(r)).raised
    /\ pc' = "done"
    /\ inflight' = inflight - 1
    /\ UNCHANGED <<env, op, results, heap, heap0, cars_to_process, sent, attempts,
                   exc, decoded, handled>>
    /\ UNCHANGED appVars

Next ==
    \/ StartStructured
    \/ StructuredReturn
    \/ StartParse
    \/ StartRank
    \/ StartSummarize
    \/ StartChat
    \/ StartEvaluate
    \/ Post
    \/ StructuredRetry
    \/ ParseReturn
    \/ RankReturn
    \/ SummarizeReturn
    \/ ChatReturn
    \/ EvaluateReturn

Spec == Init /\ [][Next]_vars

\* ---- app.py: the Search button ------------------------------------------
\* a listing as the page stores it: the click that retrieved it, its place
\* in the retrieved list and its ai_description
Stored(click, list, h) ==
    [k \in 1..Len(list) |->
        [click |-> click, pos |-> list[k], ai_description |-> h[list[k]]]]

\* what a Search click meets: one or two listings retrieved, a ranking
\* answer of at most one entry or one that is no ranking, a summary in
\* prose, and for either request a failed post or an error status
FoundCounts == {1, 2}
SearchFailures == {Response(0, <<>>, NonJson), Response(500, <<W>>, NonJson)}
SearchRankResponses ==
    Ok({<<LB, Chunk([ranked_cars |-> s]), RB>> : s \in {<<>>} \cup {<<i>> : i \in Items}}
       \cup BadTexts)
        \cup SearchFailures
SearchSummaryResponses == Ok(ProseTexts) \cup SearchFailures

\* rank_and_annotate(user_query, raw_results) as the handler calls it, r
\* being the answer its structured call ended on
handler_rank(n, r) ==
    IF ~ServiceApiKey(env) \/ n = 0
    THEN [ret |-> Listings(n), heap |-> NewHeap(n), exc |-> ""]
    ELSE rank_and_annotate(attempt_call(r), Listings(n),
                           Prefix(Listings(n), BatchCap), NewHeap(n))

\* summarize_results(list) as the handler calls it, r being the answer
handler_summarize(list, r) ==
    IF ~ServiceApiKey(env) \/ list = <<>>
    THEN Say("Unable to generate summary.")
    ELSE summarize_results(r)

\* variant: the summary is asked for raw_results, the list as retrieved
summary_argument_raw(raw, stored) == raw

\* the list the handler hands to summarize_results
summary_argument(raw, stored) == stored

\* the query is blank: a warning, nothing else
SearchBlank ==
    /\ Len(history) < MaxSearches
    /\ history' = Append(history, "blank")
    /\ UNCHANGED <<car_service, current_results, search_summary, summary_input>>
    /\ UNCHANGED <<env, callVars>>

\* CarSearchService() raises on the first click: st.error, st.stop
SearchStopped ==
    /\ Len(history) < MaxSearches
    /\ car_service = "none"
    /\ history' = Append(history, "stopped")
    /\ UNCHANGED <<car_service, current_results, search_summary, summary_input>>
    /\ UNCHANGED <<env, callVars>>

\* search_cars returned no listing
SearchNothing ==
    /\ Len(history) < MaxSearches
    /\ car_service' = "service"
    /\ current_results' = <<>>
    /\ history' = Append(history, "nothing")
    /\ UNCHANGED <<search_summary, summary_input>>
    /\ UNCHANGED <<env, callVars>>

\* search_cars returned n listings: rank, store, summarize, store
SearchFound ==
    /\ Len(history) < MaxSearches
    /\ \E n \in FoundCounts, rr \in SearchRankResponses,
          sr \in SearchSummaryResponses :
        LET click == Len(history) + 1
            ranked == handler_rank(n, rr)
            raw_results == Stored(click, Listings(n), ranked.heap)
            processed_results == Stored(click, ranked.ret, ranked.heap)
            argument == summary_argument(raw_results, processed_results)
        IN /\ current_results' = processed_results
           /\ summary_input' = argument
           /\ search_summary' = handler_summarize(argument, sr)
    /\ car_service' = "service"
    /\ history' = Append(history, "found")
    /\ UNCHANGED <<env, callVars>>

SearchNext ==
    \/ SearchBlank
    \/ SearchStopped
    \/ SearchNothing
    \/ SearchFound

SpecApp == Init /\ [][SearchNext]_vars

\* =========================================================================
\* Properties
\* =========================================================================
Done(o) == pc = "done" /\ op = o
StructuredDone == pc = "done" /\ op \in {"rank", "parse"} /\ attempts >= 1
Capped == Min(Len(results), BatchCap)
Occurrences(s, x) == Cardinality({k \in 1..Len(s) : s[k] = x})

\* the entries of ranked_cars in the model's answer, when it has them
HasRanking ==
    /\ resp.status = 200
    /\ IsJsonBody(resp.body)
    /\ LET nav == Navigate(resp.body, <<LB, RB>>) IN
        /\ nav.exc = ""
        /\ Len(nav.text) = 3
        /\ nav.text[2].t = "members"
        /\ "ranked_cars" \in DOMAIN nav.text[2].m
Entries == resp.body.candidates[1].content.parts[1].text[2].m.ranked_cars

\* C1: whatever the model answers, rank_and_annotate returns
\* min(len(listings), 15) entries in which each of the first 15 input
\* listings appears exactly once.
C1_ExactlyOnce ==
    (Done("rank") /\ attempts >= 1 /\ exc = "") =>
        /\ Len(ret) = Capped
        /\ \A i \in 0..(Capped - 1) : Occurrences(ret, i) = 1

\* C2: when the model cites a duplicate-free set of in-range indices, the
\* output is the cited listings in the model's order, each with the model's
\* text for its entry (the default text when the entry has none), followed by
\* the listings not cited in ascending original order, each with the fixed
\* annotation "Also found matching your criteria.".
CitesDistinctInRange ==
    /\ \A k \in 1..Len(Entries) :
        /\ "original_id" \in DOMAIN Entries[k]
        /\ Entries[k].original_id.t = "int"
        /\ Entries[k].original_id.v \in 0..(Capped - 1)
    /\ \A j, k \in 1..Len(Entries) :
        j # k => Entries[j].original_id # Entries[k].original_id

C2_CitedThenLeftover ==
    (Done("rank") /\ HasRanking /\ CitesDistinctInRange) =>
        /\ Len(ret) = Capped
        /\ \A k \in 1..Len(Entries) :
            /\ ret[k] = Entries[k].original_id.v
            /\ heap[ret[k]] = IF "ai_description" \in DOMAIN Entries[k]
                              THEN Entries[k].ai_description
                              ELSE DefaultDescription
        /\ \A k \in (Len(Entries) + 1)..Len(ret) :
            /\ ret[k] \in 0..(Capped - 1)
            /\ \A j \in 1..Len(Entries) : ret[k] # Entries[j].original_id.v
            /\ heap[ret[k]] = LeftoverDescription
            /\ k < Len(ret) => ret[k] < ret[k + 1]

\* three listings, the model cites [2, 0]: the result is [2, 0, 1]
C2_Witness ==
    /\ Done("rank") /\ HasRanking /\ CitesDistinctInRange
    /\ Len(results) = 3
    /\ Len(Entries) = 2
    /\ Entries[1].original_id = IntV(2)
    /\ Entries[2].original_id = IntV(0)
    /\ ret = <<2, 0, 1>>
    /\ heap[1] = LeftoverDescription

\* C3: when the model call of rank_and_annotate fails entirely (no
\* credential, retries exhausted, an exception while processing the answer),
\* the value returned is the first min(len(listings), 15) input listings in
\* their order, none with an ai_description added or changed, and it is not
\* empty when the input was not.
RankFailed == ~ServiceApiKey(env) \/ handled # ""

C3_FailureReturnsCappedUnannotated ==
    (Done("rank") /\ RankFailed) =>
        /\ ret = SubSeq(results, 1, Capped)
        /\ heap = heap0
        /\ (Len(results) > 0 => Len(ret) > 0)

\* C4: a structured call whose every attempt fails at the transport level
\* (request exception or non-200 status) makes exactly 5 attempts, never
\* two at once, and then reports an error to its caller.
C4_FiveAttemptsThenError ==
    /\ inflight <= 1
    /\ attempts <= 5
    /\ (StructuredDone /\ transportOnly) => (attempts = 5 /\ exc # "")

\* C5 as stated: evaluate never raises and always returns an assessment
\* holding all six fields, a field omitted by the model being filled in.
AssessmentFields ==
    {"price_position", "suggested_discount_eur", "justification",
     "scam_risk_score", "scam_reasons", "buyer_message"}

C5_AllSixFields ==
    Done("evaluate") => (raised = "" /\ AssessmentFields \subseteq DOMAIN ret)

\* the object the model wrote from the first '{' to the last '}' of its text
BraceSliceParses ==
    /\ Positions(llm_response, "{") # {}
    /\ Positions(llm_response, "}") # {}
    /\ LET a == SetMin(Positions(llm_response, "{"))
           b == SetMax(Positions(llm_response, "}"))
       IN \/ b = a + 1
          \/ b = a + 2 /\ llm_response[a + 1].t = "members"
WrittenObject ==
    LET a == SetMin(Positions(llm_response, "{"))
        b == SetMax(Positions(llm_response, "}"))
    IN IF b = a + 1 THEN EmptyDict ELSE llm_response[a + 1].m

\* C5 as amended: evaluate never raises; when the text from the first '{' to
\* the last '}' parses, the assessment holds exactly the fields the model
\* wrote (an omitted field stays absent), and otherwise it holds all six
\* fields of the fallback.
C5_FieldsAsWrittenOrFallback ==
    Done("evaluate") =>
        /\ raised = ""
        /\ IF BraceSliceParses
           THEN \A f \in AssessmentFields :
                    f \in DOMAIN ret <=> f \in DOMAIN WrittenObject
           ELSE AssessmentFields \subseteq DOMAIN ret

\* the model omitted three fields and the assessment lacks them
C5_Witness ==
    /\ Done("evaluate")
    /\ attempts = 1
    /\ BraceSliceParses
    /\ WrittenObject = PartialAssessment
    /\ "justification" \notin DOMAIN ret

\* C6: when the remote call made by evaluate fails (missing credential,
\* transport exception, non-200 status with any body), evaluate returns
\* exactly the fallback assessment, never data taken from the error message.
RemoteCallFailed == ~UtilsApiKey(env) \/ resp.status # 200

C6_FailOpenFallback ==
    (Done("evaluate") /\ RemoteCallFailed) => ret = FallbackAssessment

\* C7 as stated: the structured call fails with an error whenever the
\* endpoint answers 200 with a payload lacking candidates, content, parts
\* or text.
C7_UnnavigableFails ==
    (StructuredDone /\ resp.status = 200 /\ resp.body \in MissingKeyPayloads)
        => exc # ""

\* C7 as amended: on a 200 payload whose candidates or parts list is empty
\* the structured call fails with an error, without a further attempt; on a
\* 200 payload that lacks the candidates, content, parts or text key it
\* returns the empty object as its decode, never any other object.
C7_EmptyListFailsMissingKeyEmptyObject ==
    (StructuredDone /\ resp.status = 200) =>
        /\ resp.body \in EmptyListPayloads => exc = "IndexError"
        /\ resp.body \in MissingKeyPayloads =>
              (exc = "" /\ decoded = PyDict(EmptyDict))

\* a payload without candidates was decoded as the empty object
C7_Witness ==
    /\ StructuredDone
    /\ resp = Response(200, <<>>, NoCandidates)
    /\ exc = ""
    /\ decoded = PyDict(EmptyDict)

\* C8: parse_query never raises; without a credential, after exhausted
\* retries and after a non-retryable exception it returns a filter object
\* without any field, and on success the object the model's text encodes.
WrittenFilters == resp.body.candidates[1].content.parts[1].text[2].m

C8_ParseNeverRaises ==
    Done("parse") =>
        /\ raised = ""
        /\ (attempts = 0 \/ exc # "") => ret = PyDict(EmptyDict)
        /\ (attempts >= 1 /\ exc = "") => ret = decoded
        /\ (resp.status = 200
            /\ resp.body \in {FullPayload(<<LB, Chunk(f), RB>>) : f \in FilterObjects})
              => ret = PyDict(WrittenFilters)

\* five failed attempts, and parse_query returned the empty filter object
C8_Witness ==
    /\ Done("parse")
    /\ attempts = 5
    /\ exc = "HTTPError"
    /\ ret = PyDict(EmptyDict)

\* C9: rank_and_annotate does not modify the listings passed in by its
\* caller.
C9_InputUntouched ==
    op = "rank" => heap = heap0

\* C10: with the key under either environment variable name every
\* model-backed operation issues its request (rank and summarize: for a
\* non-empty list); with no key under both names none does.
NeedsListings == op \in {"rank", "summarize"}

C10_EitherNameEnables ==
    (pc = "done" /\ op # "none") =>
        /\ (env # {} /\ (NeedsListings => Len(results) > 0)) => attempts >= 1
        /\ env = {} => attempts = 0

\* C11: without a credential the structured call fails at once with a
\* configuration error and posts no request, and no public operation
\* raises: parse_query returns empty filters, rank_and_annotate its input
\* listings, summarize_results and chat_about_results a sentinel string.
C11_NoCredentialNoRequest ==
    env = {} =>
        /\ attempts = 0
        /\ pc \in {"idle", "done"}
        /\ Done("structured") => (exc = "EnvironmentError" /\ raised = "EnvironmentError")
        /\ Done("parse") => (raised = "" /\ ret = PyDict(EmptyDict))
        /\ Done("rank") => (raised = "" /\ ret = results /\ heap = heap0)
        /\ Done("summarize") => (raised = "" /\ ret = Say("Unable to generate summary."))
        /\ Done("chat") => (raised = "" /\ ret = Say("API key missing."))

\* the structured call was made without a key and raised before any request
C11_Witness ==
    /\ env = {}
    /\ Done("structured")
    /\ exc = "EnvironmentError"
    /\ attempts = 0

\* C12: whenever the text from the first '{' to the last '}' of the answer
\* does not parse, or a brace is missing, evaluate returns exactly the fixed
\* fallback: price position "Unable to determine.", discount 0, scam risk
\* 50, one scam reason and the fixed apology message.
C12_UnparsableGivesFallback ==
    (Done("evaluate") /\ ~BraceSliceParses) =>
        /\ raised = ""
        /\ DOMAIN ret = AssessmentFields
        /\ ret.price_position = "Unable to determine."
        /\ ret.suggested_discount_eur = 0
        /\ ret.justification = "AI returned invalid format."
        /\ ret.scam_risk_score = 50
        /\ ret.scam_reasons = <<"Could not parse AI output.">>
        /\ ret.buyer_message = "Desculpa - nao consegui analisar a oferta."

\* the endpoint answered 200 with a text whose braces are in the wrong
\* order around an object, and the fallback came back
C12_Witness ==
    /\ Done("evaluate")
    /\ attempts = 1
    /\ resp.status = 200
    /\ llm_response = <<RB, Chunk(FullAssessment), LB>>
    /\ ret.scam_risk_score = 50

\* C13: when the answer holds a JSON object with prose before and after it,
\* evaluate parses from the first '{' to the last '}' inclusive and returns
\* the parsed object unchanged, without clamping or normalising a field;
\* the fallback is returned only when that substring does not parse.
C13_ProseAroundObjectParsed ==
    Done("evaluate") =>
        /\ BraceSliceParses => (raised = "" /\ ret = WrittenObject)
        /\ (DOMAIN ret = AssessmentFields /\ ret.justification = "AI returned invalid format.")
               => ~BraceSliceParses

\* prose, an object with an out-of-range score and a negative discount,
\* prose: the object came back as written
C13_Witness ==
    /\ Done("evaluate")
    /\ attempts = 1
    /\ llm_response = <<W, LB, Chunk(PartialAssessment), RB, W>>
    /\ ret = PartialAssessment
    /\ ret.scam_risk_score = 150
    /\ ret.suggested_discount_eur = -5

\* how an attempt of the structured client ended, read off its answer
StructuredOp == op \in {"rank", "parse", "structured"}
NetworkFailure(r) == r.status = 0 \/ (400 <= r.status /\ r.status < 600)
MalformedBody(r) ==
    \/ ~IsJsonBody(r.body)
    \/ /\ Navigate(r.body, <<LB, RB>>).exc = ""
       /\ ~JsonValid(Navigate(r.body, <<LB, RB>>).text)
FurtherAttemptStarted ==
    \/ pc = "call" /\ attempts >= 1
    \/ pc = "wait" /\ attempts >= 2

\* C14: the structured client starts a further attempt only after an attempt
\* that ended in a network-level failure (no answer, or an error status) or
\* in a body that is not JSON or whose text is not JSON; an answer that
\* decodes, the empty object included, is returned with no further attempt,
\* and an attempt failing with another exception ends the call.
C14_RetryOnlyOnNetworkOrMalformed ==
    StructuredOp =>
        /\ FurtherAttemptStarted => (NetworkFailure(resp) \/ MalformedBody(resp))
        /\ (pc = "done" /\ attempts >= 1 /\ ~NetworkFailure(resp) /\ ~MalformedBody(resp)) =>
              IF Navigate(resp.body, <<LB, RB>>).exc = ""
              THEN exc = "" /\ decoded = json_loads(Navigate(resp.body, <<LB, RB>>).text)
              ELSE exc = Navigate(resp.body, <<LB, RB>>).exc
        /\ (pc = "done" /\ attempts >= 1 /\ attempts < max_tries) =>
              (~NetworkFailure(resp) /\ ~MalformedBody(resp))

\* a first attempt failed and was repeated; the second answer was the empty
\* object, which was returned as the decode
C14_Witness ==
    /\ Done("structured")
    /\ attempts = 2
    /\ resp = Response(200, <<>>, FullPayload(<<LB, RB>>))
    /\ exc = ""
    /\ decoded = PyDict(EmptyDict)

\* the strings summarize_results and chat_about_results return in place of
\* an answer, and the ways their model call can fail
Sentinels ==
    {"Unable to generate summary.", "Error generating summary.",
     "Analysis unavailable.", "Error summarizing:", "API key missing.",
     "Error generating response.", "Error:"}
IsSentinel(s) == Len(s) >= 1 /\ s[1].t \in Sentinels
Unnavigable(r) ==
    \/ ~IsJsonBody(r.body)
    \/ r.body \in MissingKeyPayloads \cup EmptyListPayloads
ModelCallFailed ==
    \/ env = {}
    \/ attempts >= 1 /\ (resp.status # 200 \/ Unnavigable(resp))

\* C15: summarize_results and chat_about_results never raise; whenever the
\* model call fails (no credential, non-200 status, transport exception,
\* unnavigable payload) each returns a sentinel string, and
\* summarize_results with no listings or no credential returns exactly
\* "Unable to generate summary.".
C15_SentinelOnEveryFailure ==
    (Done("summarize") \/ Done("chat")) =>
        /\ raised = ""
        /\ ModelCallFailed => IsSentinel(ret)
        /\ (op = "summarize" /\ (results = <<>> \/ env = {})) =>
              ret = Say("Unable to generate summary.")

\* the index an entry of the answer cites, and the entries the first loop
\* of the reconciliation passes over
EntryId(e) == Get(e, "original_id", None)
InRangeEntry(e) ==
    EntryId(e).t = "int" /\ 0 <= EntryId(e).v /\ EntryId(e).v < Capped
OutOfRangeOrMissing(e) ==
    \/ EntryId(e).t = "none"
    \/ EntryId(e).t = "int" /\ ~(0 <= EntryId(e).v /\ EntryId(e).v < Capped)
IntegerOrMissingIds ==
    \A k \in 1..Len(Entries) : EntryId(Entries[k]).t \in {"int", "none"}
InRangeEntries == SelectSeq(Entries, InRangeEntry)
Unaddressed ==
    {i \in 0..(Capped - 1) :
        \A k \in 1..Len(Entries) : EntryId(Entries[k]) # IntV(i)}

\* C16: an entry of the model's answer whose index is out of range
\* (negative, or at or beyond the capped length) or missing adds no entry to
\* the output, raises no error and leaves the position and annotation of
\* every other listing as they are; the listings the answer did not address
\* are still appended by the leftover rule.
C16_OutOfRangeEntryInert ==
    (Done("rank") /\ HasRanking /\ IntegerOrMissingIds
        /\ \E k \in 1..Len(Entries) : OutOfRangeOrMissing(Entries[k])) =>
        /\ handled = ""
        /\ Len(ret) = Len(InRangeEntries) + Cardinality(Unaddressed)
        /\ \A k \in 1..Len(InRangeEntries) :
              k <= Len(ret) /\ ret[k] = EntryId(InRangeEntries[k]).v
        /\ \A i \in Unaddressed :
              /\ \E k \in (Len(InRangeEntries) + 1)..Len(ret) : ret[k] = i
              /\ heap[i] = LeftoverDescription

\* the listings an operation put in its request are the first c of its input
SentFirst(c) ==
    /\ Len(sent) <= c
    /\ Len(sent) <= Len(results)
    /\ \A k \in 1..Len(sent) : sent[k] = results[k]
RankSucceeded == Done("rank") /\ attempts >= 1 /\ exc = "" /\ handled = ""

\* C17: rank_and_annotate works on the first 15 input listings only: the
\* listings at positions 15 and beyond are never sent to the model, never
\* given or changed an ai_description and never part of the batch returned
\* on the success path; summarize_results and chat_about_results send at
\* most the first 15 listings, evaluate at most the first 8.
C17_BeyondCapUntouched ==
    /\ op = "rank" =>
        /\ SentFirst(15)
        /\ \A i \in DOMAIN heap : i >= 15 => heap[i] = heap0[i]
        /\ RankSucceeded => \A k \in 1..Len(ret) : ret[k] < 15
    /\ op \in {"summarize", "chat"} => SentFirst(15)
    /\ op = "evaluate" => SentFirst(8)

\* sixteen listings, the model cites index 15: the sixteenth listing was
\* not sent, is not annotated and is not in the batch of fifteen
C17_Witness ==
    /\ RankSucceeded
    /\ HasRanking
    /\ Len(results) = 16
    /\ Len(sent) = 15
    /\ \E k \in 1..Len(Entries) : EntryId(Entries[k]) = IntV(15)
    /\ heap[15] = Absent
    /\ Len(ret) = 15

\* what the page renders below the search box
ResultsShown == current_results # <<>>
SummaryShown == ResultsShown /\ search_summary # <<>>
LastSearch ==
    LET done == SelectSeq(history, LAMBDA h : h \in {"found", "nothing"})
    IN IF done = <<>> THEN "none" ELSE done[Len(done)]
LastFoundClick ==
    CHOOSE k \in 0..Len(history) :
        /\ k > 0 => history[k] = "found"
        /\ \A j \in (k + 1)..Len(history) : history[j] # "found"

\* C18: after any sequence of Search clicks, whenever a non-empty result
\* list is stored, the stored summary is empty or is what summarize_results
\* returned for exactly that list in the same click, so a summary of an
\* earlier search is never shown with the results of a later one; a search
\* that finds nothing clears the stored results.
C18_SummaryMatchesResults ==
    /\ ResultsShown =>
          /\ LastSearch = "found"
          /\ \A k \in 1..Len(current_results) :
                current_results[k].click = LastFoundClick
          /\ search_summary = <<>> \/ summary_input = current_results
    /\ LastSearch = "nothing" => ~ResultsShown

\* a search with results, one that found nothing, then one with results
\* whose ranking put the second listing first: the summary shown is the
\* third search's
C18_Witness ==
    /\ history = <<"found", "nothing", "found">>
    /\ SummaryShown
    /\ Len(current_results) = 2
    /\ current_results[1].pos = 1
    /\ current_results[1].click = 3
    /\ summary_input = current_results
====
